---- MODULE Spec2Model ----
(***************************************************************************)
(* State machine of the live-audio element GdmLiveAudio (src/index.tsx):   *)
(* the playback scheduler inside the inbound-message handler, the capture  *)
(* pipeline (startRecording / stopRecording), the session life cycle       *)
(* (initClient / initSession / reset) and the channel callbacks.           *)
(*                                                                         *)
(* The element runs on one event loop: every action below is one handler   *)
(* run from its entry (or from the await it was suspended in) up to its    *)
(* next await or its end.  Time is counted in whole clock units.           *)
(*                                                                         *)
(* Spec is the whole element.  PlaySpec (replies, nobody recording),       *)
(* FlushSpec (replies and reset) and TalkSpec (capture and session, no     *)
(* replies) are the parts of it the properties are checked on: the reply   *)
(* side and the capture side share no variable but the readout.            *)
(*                                                                         *)
(* The element renders one gdm-circle-visualizer                           *)
(* (src/circle-visualizer.ts), whose draw loop is VizSpec: it shares no    *)
(* variable with the rest.                                                 *)
(***************************************************************************)
EXTENDS Integers, FiniteSets, Sequences, TLC

\* ---------------------------------------------------------------- bounds
MaxMsgs   == 2      \* inbound messages delivered in one run
MaxClock  == 2      \* the output clock stops advancing here
MaxDur    == 2      \* longest decoded chunk, in clock units
MaxResets == 1      \* reset() invocations in one run
MaxAcq    == 2      \* startRecording() invocations that reach getUserMedia
MaxFlushMsgs == 1   \* inbound messages in the runs that mix replies and reset()
MaxFrames == 6      \* animation-frame callbacks requested in one run

Msgs      == 1..MaxMsgs
Durations == 1..MaxDur
Chans     == 1..(MaxResets + 1)   \* one connect by initClient, one per reset
Resets    == 1..MaxResets
Acqs      == 1..MaxAcq

Max(a, b) == IF a >= b THEN a ELSE b

\* ----------------------------------------------------------------- state
VARIABLES
  clock,               \* outputAudioContext.currentTime
  nextStartTime,       \* the playback cursor
  sources,             \* the active-unit set (ids of AudioBufferSourceNodes)
  unit,                \* every AudioBufferSourceNode ever created, by message id
  hnd,                 \* the onmessage invocation of each message
  nMsg,                \* messages delivered so far
  isRecording, status, error,
  session,             \* 0 = unset/null, otherwise the channel held
  chan,                \* every remote channel: its state and who connects it
                       \*   (by = 0: initClient's initSession, by = r: reset r)
  nChan,               \* channels requested so far
  initPc,              \* position of initClient: "fetch", then "started"
  rst,                 \* the reset() invocations
  nRst,
  acqPending,          \* startRecording() invocations suspended in getUserMedia
  nAcq,
  mediaStream, sourceNode, scriptProcessorNode,   \* 0 = unset/null
  liveStreams,         \* acquired microphone streams whose tracks are not stopped
  liveProcs,           \* script processors still connected with their callback
  hist,                \* history: what ran last, and what the cursor went through
  isConnected,         \* the visualizer is attached to the document
  hasConnected,        \* it has been attached once: Lit has enabled its updates
  inputNode, outputNode,           \* the node properties are set
  inputAnalyser, outputAnalyser,   \* the analysers exist
  canvasCtx,           \* canvas and canvasCtx are set
  animationFrameId,    \* 0 = undefined, otherwise the id stored last
  frames,              \* the animation-frame callbacks requested and neither
                       \*   run nor cancelled: [id, kind] with kind "visualize"
                       \*   or "retry" (the arrow function of line 105)
  nFrame,              \* ids handed out by requestAnimationFrame so far
  changedProperties,   \* node properties set since the last update
  updatePending,       \* a Lit update is requested and has not run
  vizDetached          \* history: a visualize frame callback has run since
                       \*   the element was detached last

vars == <<clock, nextStartTime, sources, unit, hnd, nMsg, isRecording, status,
          error, session, chan, nChan, initPc, rst, nRst, acqPending, nAcq,
          mediaStream, sourceNode, scriptProcessorNode, liveStreams, liveProcs,
          hist, isConnected, hasConnected, inputNode, outputNode,
          inputAnalyser, outputAnalyser, canvasCtx, animationFrameId, frames,
          nFrame, changedProperties, updatePending, vizDetached>>

playVars == <<nextStartTime, sources, unit, hnd, nMsg>>
capVars  == <<isRecording, acqPending, nAcq, mediaStream, sourceNode,
              scriptProcessorNode, liveStreams, liveProcs>>
sessVars == <<session, chan, nChan, initPc, rst, nRst>>
vizVars  == <<isConnected, hasConnected, inputNode, outputNode, inputAnalyser,
              outputAnalyser, canvasCtx, animationFrameId, frames, nFrame,
              changedProperties, updatePending, vizDetached>>
liveVars == <<clock, playVars, capVars, sessVars, status, error, hist>>

NoUnit == [st |-> "none", start |-> 0, dur |-> 0, at |-> 0, pred |-> 0,
           bumped |-> FALSE, flushed |-> FALSE, late |-> FALSE,
           byHook |-> 0, byStop |-> 0, stopFin |-> FALSE, stopDone |-> FALSE]

NoHnd == [pc |-> "new", intr |-> FALSE, afterFail |-> FALSE]

NoRst == [pc |-> "idle", old |-> 0, acq |-> 0]

NoChan == [st |-> "none", by |-> 0]

\* rst[r].old : the channel held when reset r closed it (0 = none)
\* rst[r].acq : the number of getUserMedia requests made before reset r began

\* hnd[m].afterFail : when message m arrived, the decode of an earlier message
\*                     had already failed

\* hist.op / hist.arg : the handler that ran last and its argument, for the
\*                      handlers the properties below are about ("" otherwise)
\* hist.prev          : the unit started last (0 = none)
\* hist.bumped        : since then a handler found the clock ahead of the cursor
\* hist.flushed       : since then an interruption or reset flushed the scheduler
\* hist.lastIntr      : the latest message whose interruption flush has run
\* hist.everFlushed   : some interruption or reset flush has run
Hist(op, arg) == [hist EXCEPT !.op = op, !.arg = arg]

\* the visualizer after construction, not yet attached: fields of lines 14-22
VizInit ==
  /\ isConnected = FALSE
  /\ hasConnected = FALSE
  /\ inputNode = FALSE
  /\ outputNode = FALSE
  /\ inputAnalyser = FALSE
  /\ outputAnalyser = FALSE
  /\ canvasCtx = FALSE
  /\ animationFrameId = 0
  /\ frames = {}
  /\ nFrame = 0
  /\ changedProperties = {}
  /\ updatePending = FALSE
  /\ vizDetached = FALSE

Init ==
  /\ VizInit
  /\ clock = 0
  /\ nextStartTime = 0          \* initAudio(): nextStartTime = currentTime
  /\ sources = {}
  /\ unit = [m \in Msgs |-> NoUnit]
  /\ hnd = [m \in Msgs |-> NoHnd]
  /\ nMsg = 0
  /\ isRecording = FALSE
  /\ status = ""
  /\ error = ""
  /\ session = 0
  /\ chan = [c \in Chans |-> NoChan]
  /\ nChan = 0
  /\ initPc = "fetch"           \* the constructor ran initClient() up to fetch
  /\ rst = [r \in Resets |-> NoRst]
  /\ nRst = 0
  /\ acqPending = {}
  /\ nAcq = 0
  /\ mediaStream = 0
  /\ sourceNode = 0
  /\ scriptProcessorNode = 0
  /\ liveStreams = {}
  /\ liveProcs = {}
  /\ hist = [op |-> "", arg |-> 0, prev |-> 0, bumped |-> FALSE,
             flushed |-> FALSE, lastIntr |-> 0, everFlushed |-> FALSE]

\* ------------------------------------------------------ playback scheduler

\* A unit has played to its end: it was started (a start time in the past
\* starts it at once) and the clock has passed its last sample.
PlayedOut(u) ==
  /\ unit[u].st = "active"
  /\ clock >= Max(unit[u].start, unit[u].at) + unit[u].dur

\* source.stop() on every unit of S, as the flush loops call it
StopAll(un, S) ==
  [u \in Msgs |->
     IF u \in S
       THEN [un[u] EXCEPT
               !.st = IF un[u].st = "active"
                         /\ clock < Max(un[u].start, un[u].at) + un[u].dur
                        THEN "stopped" ELSE @,
               !.stopFin = @ \/ (un[u].st = "active"
                                 /\ clock >= Max(un[u].start, un[u].at) + un[u].dur),
               !.stopDone = @ \/ un[u].st = "done",
               !.byStop = @ + 1]
       ELSE un[u]]

\* the cursor when a handler of an audio message begins
CursorAtEntry(t, now) == Max(t, now)

\* the cursor after a unit of duration d was started at t
AdvanceLeavesGap(t, d) == t + d + 1

Advance(t, d) == t + d

\* the set and the cursor the interruption flush leaves behind
InterruptSkipsOne(srcs) ==
  [sources |-> IF srcs = {} THEN {} ELSE {CHOOSE u \in srcs : TRUE},
   nextStartTime |-> 0]

Interrupt(srcs) == [sources |-> {}, nextStartTime |-> 0]

\* the set after the 'ended' listener of unit u ran
OnEndedKeeps(srcs, u) == srcs

OnEnded(srcs, u) == srcs \ {u}

\* lines 231-237 of the handler: stop and delete every unit, cursor to 0
Flush(un, srcs, m) ==
  /\ unit' = StopAll(un, srcs)
  /\ sources' = Interrupt(srcs).sources
  /\ nextStartTime' = Interrupt(srcs).nextStartTime
  /\ hist' = [hist EXCEPT !.op = "", !.arg = 0,
                          !.flushed = TRUE, !.everFlushed = TRUE,
                          !.lastIntr = Max(@, m),
                          !.prev = IF un[m].st = "none" THEN @ ELSE m,
                          !.bumped = IF un[m].st = "none" THEN @ ELSE FALSE]

\* onmessage, a message with an audio part: lines 203-212, up to the await
OnMessageAudio(intr) ==
  /\ nMsg < MaxMsgs
  /\ \E c \in Chans : chan[c].st = "open"
  /\ nMsg' = nMsg + 1
  /\ nextStartTime' = CursorAtEntry(nextStartTime, clock)
  /\ hnd' = [hnd EXCEPT ![nMsg + 1] =
                         [pc |-> "decode", intr |-> intr,
                          afterFail |-> \E j \in Msgs : hnd[j].pc = "threw"]]
  /\ hist' = [hist EXCEPT !.op = "", !.arg = 0,
                          !.bumped = @ \/ (hist.prev # 0 /\ ~hist.flushed
                                           /\ clock > nextStartTime)]
  /\ UNCHANGED <<clock, sources, unit, status, error, capVars, sessVars>>
  /\ UNCHANGED vizVars

\* onmessage, a message with no audio part and interrupted set: lines 230-237
OnMessageInterrupted ==
  /\ nMsg < MaxMsgs
  /\ \E c \in Chans : chan[c].st = "open"
  /\ nMsg' = nMsg + 1
  /\ hnd' = [hnd EXCEPT ![nMsg + 1] =
                         [pc |-> "done", intr |-> TRUE,
                          afterFail |-> \E j \in Msgs : hnd[j].pc = "threw"]]
  /\ Flush(unit, sources, nMsg + 1)
  /\ UNCHANGED <<clock, status, error, capVars, sessVars>>
  /\ UNCHANGED vizVars

\* decodeAudioData (./utils) is asynchronous and its latency differs from chunk
\* to chunk: the decode awaited for any message may settle next, whatever the
\* order of the messages.
DecodePending(m) == hnd[m].pc = "decode"

\* onmessage resumed after the decode: lines 212-238
DecodeDone(m, d) ==
  /\ DecodePending(m)
  /\ hnd' = [hnd EXCEPT ![m].pc = "done"]
  /\ LET u  == [NoUnit EXCEPT !.st = "active", !.start = nextStartTime,
                              !.dur = d, !.at = clock, !.pred = hist.prev,
                              !.bumped = hist.bumped, !.flushed = hist.flushed,
                              !.late = hist.lastIntr > m]
         un == [unit EXCEPT ![m] = u]
         s  == sources \cup {m}
     IN IF hnd[m].intr
          THEN Flush(un, s, m)
          ELSE /\ unit' = un
               /\ sources' = s
               /\ nextStartTime' = Advance(nextStartTime, d)
               /\ hist' = [hist EXCEPT !.op = "", !.arg = 0, !.prev = m,
                                       !.bumped = FALSE, !.flushed = FALSE]
  /\ UNCHANGED <<clock, nMsg, status, error, capVars, sessVars>>
  /\ UNCHANGED vizVars

DecodeFailCloses(m) ==
  /\ DecodePending(m)
  /\ hnd' = [hnd EXCEPT ![m].pc = "threw"]
  /\ hist' = Hist("", 0)
  /\ chan' = [c \in Chans |-> IF chan[c].st = "open"
                                THEN [chan[c] EXCEPT !.st = "closed"]
                                ELSE chan[c]]
  /\ UNCHANGED <<clock, nextStartTime, sources, unit, nMsg, status, error,
                 capVars, session, nChan, initPc, rst, nRst>>
  /\ UNCHANGED vizVars

\* the decode rejects: the handler ends at line 212 with an unhandled rejection
DecodeFail(m) ==
  /\ DecodePending(m)
  /\ hnd' = [hnd EXCEPT ![m].pc = "threw"]
  /\ hist' = Hist("", 0)
  /\ UNCHANGED <<clock, nextStartTime, sources, unit, nMsg, status, error,
                 capVars, sessVars>>
  /\ UNCHANGED vizVars

\* the 'ended' event of a unit that played out or was stopped: lines 221-223
Ended(u) ==
  /\ unit[u].st = "stopped" \/ PlayedOut(u)
  /\ sources' = OnEnded(sources, u)
  /\ unit' = [unit EXCEPT ![u].st = "done",
                          ![u].byHook = IF u \in sources THEN @ + 1 ELSE @]
  /\ hist' = Hist("", 0)
  /\ UNCHANGED <<clock, nextStartTime, hnd, nMsg, status, error, capVars,
                 sessVars>>
  /\ UNCHANGED vizVars

\* the output clock advances
Tick ==
  /\ clock < MaxClock
  /\ clock' = clock + 1
  /\ UNCHANGED <<playVars, status, error, capVars, sessVars, hist>>
  /\ UNCHANGED vizVars

\* --------------------------------------------------------- capture pipeline

\* stopRecording(), lines 319-342, on the handles ms / sn / spn.  The guard of
\* line 320 never returns: inputAudioContext.destination is always an object.
stopRecordingForgetsStream(ms, sn, spn, streams, procs) ==
  [isRecording |-> FALSE,
   status |-> "Recording stopped",
   error |-> "",
   scriptProcessorNode |-> 0,
   sourceNode |-> 0,
   mediaStream |-> 0,
   liveProcs |-> IF spn # 0 THEN procs \ {spn} ELSE procs,
   liveStreams |-> streams]

stopRecordingKeepsNode(ms, sn, spn, streams, procs) ==
  [isRecording |-> FALSE,
   status |-> "Recording stopped",
   error |-> "",
   scriptProcessorNode |-> spn,
   sourceNode |-> 0,
   mediaStream |-> 0,
   liveProcs |-> IF spn # 0 THEN procs \ {spn} ELSE procs,
   liveStreams |-> IF ms # 0 THEN streams \ {ms} ELSE streams]

stopRecording(ms, sn, spn, streams, procs) ==
  [isRecording |-> FALSE,
   status |-> "Recording stopped",
   error |-> "",
   scriptProcessorNode |-> 0,
   sourceNode |-> 0,
   mediaStream |-> 0,
   liveProcs |-> IF spn # 0 THEN procs \ {spn} ELSE procs,
   liveStreams |-> IF ms # 0 THEN streams \ {ms} ELSE streams]

ApplyStop(r) ==
  /\ isRecording' = r.isRecording
  /\ scriptProcessorNode' = r.scriptProcessorNode
  /\ sourceNode' = r.sourceNode
  /\ mediaStream' = r.mediaStream
  /\ liveProcs' = r.liveProcs
  /\ liveStreams' = r.liveStreams

\* startRecording(), lines 263-276, up to the await of getUserMedia.  With
\* isRecording set it returns at once and changes nothing.
StartRecording ==
  /\ ~isRecording
  /\ IF session = 0
       THEN /\ error' = "Session not initialized"
            /\ hist' = Hist("startRejected", 0)
            /\ UNCHANGED <<status, acqPending, nAcq>>
       ELSE /\ nAcq < MaxAcq
            /\ status' = "Requesting microphone access"
            /\ error' = ""
            /\ nAcq' = nAcq + 1
            /\ acqPending' = acqPending \cup {nAcq + 1}
            /\ hist' = Hist("startRecording", nAcq + 1)
  /\ UNCHANGED <<clock, playVars, sessVars, isRecording, mediaStream,
                 sourceNode, scriptProcessorNode, liveStreams, liveProcs>>
  /\ UNCHANGED vizVars

\* startRecording() resumed with the stream i: lines 276-311
AcquireOk(i) ==
  /\ i \in acqPending
  /\ acqPending' = acqPending \ {i}
  /\ mediaStream' = i
  /\ sourceNode' = i
  /\ scriptProcessorNode' = i
  /\ liveStreams' = liveStreams \cup {i}
  /\ liveProcs' = liveProcs \cup {i}
  /\ isRecording' = TRUE
  /\ status' = "Recording"
  /\ error' = ""
  /\ hist' = Hist("recording", i)
  /\ UNCHANGED <<clock, playVars, sessVars, nAcq>>
  /\ UNCHANGED vizVars

\* where startRecording() can fail after its await: 0 getUserMedia rejects
\* (line 276), 1 createMediaStreamSource throws (283), 2 the source node is
\* stored and connect or createScriptProcessor throws (286-289), 3 the script
\* processor is stored with its callback and a connect throws (307-308)
FailStages == 0..3

\* startRecording() resumed with a failure at the given stage: lines 276-308 up
\* to the throw, then the catch of lines 312-316
AcquireFail(i, stage) ==
  /\ i \in acqPending
  /\ acqPending' = acqPending \ {i}
  /\ LET ms  == IF stage >= 1 THEN i ELSE mediaStream
         ls  == IF stage >= 1 THEN liveStreams \cup {i} ELSE liveStreams
         sn  == IF stage >= 2 THEN i ELSE sourceNode
         spn == IF stage >= 3 THEN i ELSE scriptProcessorNode
         lp  == IF stage >= 3 THEN liveProcs \cup {i} ELSE liveProcs
         r   == stopRecording(ms, sn, spn, ls, lp)
     IN /\ ApplyStop(r)
        /\ status' = r.status
        /\ error' = r.error
  /\ hist' = Hist(IF stage = 0 THEN "startFailed" ELSE "wiringFailed", i)
  /\ UNCHANGED <<clock, playVars, sessVars, nAcq>>
  /\ UNCHANGED vizVars

\* the stop button: stopRecording(), lines 319-342 (hist.arg = 1: the handler
\* that ran just before was stopRecording() too)
StopRecording ==
  /\ LET r == stopRecording(mediaStream, sourceNode, scriptProcessorNode,
                            liveStreams, liveProcs)
     IN /\ ApplyStop(r)
        /\ status' = r.status
        /\ error' = r.error
  /\ hist' = Hist("stopRecording", IF hist.op = "stopRecording" THEN 1 ELSE 0)
  /\ UNCHANGED <<clock, playVars, sessVars, acqPending, nAcq>>
  /\ UNCHANGED vizVars

\* the guard of the framing callback, line 296: a frame is offered to the
\* outbound channel only while recording with a session held
OfferedWhenHeld(rec, sess) == sess # 0

Offered(rec, sess) == rec /\ sess # 0

\* the catch of the framing callback, lines 301-304: the failure is reported
\* and nothing else is touched
SendFailedStops(rec) == [error |-> "Error sending audio", isRecording |-> FALSE]

SendFailed(rec) == [error |-> "Error sending audio", isRecording |-> rec]

\* onaudioprocess of the connected script processor n: lines 295-305.
\* arg 0: returned at line 296, 1: frame sent, 2: sendRealtimeInput threw.
\* Sending on a channel that is not open either throws or drops the frame.
AudioProcess(n, throws) ==
  /\ n \in liveProcs
  /\ IF ~Offered(isRecording, session)
       THEN /\ ~throws
            /\ hist' = Hist("frame", 0)
            /\ UNCHANGED <<error, isRecording>>
       ELSE IF throws
         THEN /\ chan[session].st # "open"
              /\ error' = SendFailed(isRecording).error
              /\ isRecording' = SendFailed(isRecording).isRecording
              /\ hist' = Hist("frame", 2)
         ELSE /\ hist' = Hist("frame", 1)
              /\ UNCHANGED <<error, isRecording>>
  /\ UNCHANGED <<clock, playVars, sessVars, status, acqPending, nAcq,
                 mediaStream, sourceNode, scriptProcessorNode, liveStreams,
                 liveProcs>>
  /\ UNCHANGED vizVars

\* ------------------------------------------------------- session life cycle

\* initSession(), lines 174-196, called by `by` (0: initClient, r: reset r): up
\* to the await of connect.  It yields the channel table and counter.
Connecting(by) ==
  [chan |-> [chan EXCEPT ![nChan + 1] = [st |-> "connecting", by |-> by]],
   nChan |-> nChan + 1]

\* initClient() resumed after the fetch of the instructions: lines 154-171,
\* then initSession() up to its await
FetchDone(ok) ==
  /\ initPc = "fetch"
  /\ initPc' = "started"
  /\ IF ok THEN status' = "System instructions loaded" /\ error' = ""
           ELSE error' = "Failed to load system instructions"
                /\ UNCHANGED status
  /\ chan' = Connecting(0).chan
  /\ nChan' = Connecting(0).nChan
  /\ hist' = Hist("", 0)
  /\ UNCHANGED <<clock, playVars, capVars, session, rst, nRst>>
  /\ UNCHANGED vizVars

\* connect resolves for channel c: onopen (line 200), the assignment of line
\* 196 and, inside reset(), line 369
ConnectOk(c) ==
  /\ chan[c].st = "connecting"
  /\ chan' = [chan EXCEPT ![c].st = "open"]
  /\ session' = c
  /\ error' = ""
  /\ IF chan[c].by = 0
       THEN /\ status' = "Session Opened"
            /\ hist' = Hist("", 0)
            /\ UNCHANGED rst
       ELSE /\ status' = "Session reset"
            /\ rst' = [rst EXCEPT ![chan[c].by].pc = "done"]
            /\ hist' = Hist("resetDone", chan[c].by)
  /\ UNCHANGED <<clock, playVars, capVars, nChan, initPc, nRst>>
  /\ UNCHANGED vizVars

\* connect rejects for channel c: the catch of lines 248-251 and, inside
\* reset(), line 369
ConnectFail(c) ==
  /\ chan[c].st = "connecting"
  /\ chan' = [chan EXCEPT ![c].st = "failed"]
  /\ IF chan[c].by = 0
       THEN /\ error' = "Failed to initialize session"
            /\ hist' = Hist("", 0)
            /\ UNCHANGED <<status, rst>>
       ELSE /\ status' = "Session reset"
            /\ error' = ""
            /\ rst' = [rst EXCEPT ![chan[c].by].pc = "done"]
            /\ hist' = Hist("resetDone", chan[c].by)
  /\ UNCHANGED <<clock, playVars, capVars, session, nChan, initPc, nRst>>
  /\ UNCHANGED vizVars

\* onerror of channel c: lines 239-241
OnError(c) ==
  /\ chan[c].st = "open"
  /\ chan' = [chan EXCEPT ![c].st = "errored"]
  /\ error' = "Session Error"
  /\ hist' = Hist("onerror", c)
  /\ UNCHANGED <<clock, playVars, capVars, status, session, nChan, initPc,
                 rst, nRst>>
  /\ UNCHANGED vizVars

\* onclose of channel c, closed by the remote side: lines 242-244
OnClose(c) ==
  /\ chan[c].st \in {"open", "errored"}
  /\ chan' = [chan EXCEPT ![c].st = "closed"]
  /\ status' = "Session Closed"
  /\ error' = ""
  /\ hist' = Hist("onclose", c)
  /\ UNCHANGED <<clock, playVars, capVars, session, nChan, initPc, rst, nRst>>
  /\ UNCHANGED vizVars

\* the set and the cursor the loop of reset() leaves behind: lines 349-357
ResetFlush(srcs) == [sources |-> {}, nextStartTime |-> 0]

\* reset() from line 368 on, for reset r: initSession() up to its await.  While
\* initClient() is still fetching, this.client is unset, the connect expression
\* throws inside the try of line 195 and reset() runs to its end.  rec is the
\* record of the reset, st and er are the readout on reaching line 368, h the
\* history so far.
ResetConnect(r, rec, st, er, h) ==
  IF initPc = "fetch"
    THEN /\ status' = "Session reset"
         /\ error' = ""
         /\ rst' = [rst EXCEPT ![r] = [rec EXCEPT !.pc = "done"]]
         /\ hist' = [h EXCEPT !.op = "resetDone", !.arg = r]
         /\ UNCHANGED <<chan, nChan>>
    ELSE /\ status' = st
         /\ error' = er
         /\ rst' = [rst EXCEPT ![r] = [rec EXCEPT !.pc = "connecting"]]
         /\ chan' = Connecting(r).chan
         /\ nChan' = Connecting(r).nChan
         /\ hist' = [h EXCEPT !.op = "", !.arg = 0]

\* the reset button: reset(), lines 344-361, up to the await of close(), or
\* with no session held up to the await inside initSession()
Reset ==
  /\ nRst < MaxResets
  /\ nRst' = nRst + 1
  /\ LET r  == stopRecording(mediaStream, sourceNode, scriptProcessorNode,
                             liveStreams, liveProcs)
         st == IF isRecording THEN r.status ELSE "Resetting session"
         h  == [hist EXCEPT !.flushed = TRUE, !.everFlushed = TRUE]
     IN /\ IF isRecording
             THEN ApplyStop(r)
             ELSE UNCHANGED <<isRecording, mediaStream, sourceNode,
                              scriptProcessorNode, liveStreams, liveProcs>>
        /\ IF session # 0
             THEN /\ chan' = [chan EXCEPT ![session].st =
                                IF @ \in {"open", "errored"} THEN "shut" ELSE @]
                  /\ rst' = [rst EXCEPT ![nRst + 1] =
                               [pc |-> "closing", old |-> session, acq |-> nAcq]]
                  /\ status' = st
                  /\ error' = ""
                  /\ hist' = [h EXCEPT !.op = "", !.arg = 0]
                  /\ UNCHANGED nChan
             ELSE ResetConnect(nRst + 1, [NoRst EXCEPT !.acq = nAcq], st, "", h)
  /\ unit' = StopAll(unit, sources)
  /\ sources' = ResetFlush(sources).sources
  /\ nextStartTime' = ResetFlush(sources).nextStartTime
  /\ UNCHANGED <<clock, hnd, nMsg, session, initPc, acqPending, nAcq>>
  /\ UNCHANGED vizVars

\* reset() resumed after the await of close(): lines 361-368
ResetClosed(r) ==
  /\ rst[r].pc = "closing"
  /\ session' = 0
  /\ ResetConnect(r, rst[r], status, error, hist)
  /\ UNCHANGED <<clock, playVars, capVars, initPc, nRst>>
  /\ UNCHANGED vizVars

\* ------------------------------------------- the visualizer's draw loop
\* (src/circle-visualizer.ts).  The operators below take and yield the part
\* of the element the draw loop works on:
\*   [canvasCtx, animationFrameId, frames, nFrame]

\* requestAnimationFrame(cb): the callback is queued under a fresh id
Request(v, kind) ==
  [v EXCEPT !.frames = @ \cup {[id |-> v.nFrame + 1, kind |-> kind]},
            !.nFrame = @ + 1]

\* cancelAnimationFrame(id); an id that has run or was cancelled is a no-op
Cancel(v, id) == [v EXCEPT !.frames = {f \in @ : f.id # id}]

\* visualize(), lines 116-191: whether it draws or not (line 117), it requests
\* itself for the next frame and stores the id (lines 118, 190)
visualize(v) ==
  [Request(v, "visualize") EXCEPT !.animationFrameId = v.nFrame + 1]

\* startVisualization(), lines 96-114.  The canvas is in the shadow root only
\* from the first update on, in which firstUpdated() sets canvas and canvasCtx
\* before any other handler runs, so lines 99-102 find no canvas when
\* canvasCtx is unset; the retry's id is not stored (line 105).
startVisualization(v) ==
  IF ~v.canvasCtx
    THEN Request(v, "retry")
    ELSE visualize(IF v.animationFrameId # 0
                     THEN Cancel(v, v.animationFrameId)
                     ELSE v)

Viz == [canvasCtx |-> canvasCtx, animationFrameId |-> animationFrameId,
        frames |-> frames, nFrame |-> nFrame]

\* the handler ends having requested no more than MaxFrames callbacks so far
SetViz(v) ==
  /\ v.nFrame <= MaxFrames
  /\ canvasCtx' = v.canvasCtx
  /\ animationFrameId' = v.animationFrameId
  /\ frames' = v.frames
  /\ nFrame' = v.nFrame

\* the host sets the inputNode or outputNode property (lines 14-15): Lit
\* records the change and requests an update
SetNode(p) ==
  /\ IF p = "inputNode"
       THEN inputNode' = TRUE /\ UNCHANGED outputNode
       ELSE outputNode' = TRUE /\ UNCHANGED inputNode
  /\ changedProperties' = changedProperties \cup {p}
  /\ updatePending' = TRUE
  /\ UNCHANGED <<isConnected, hasConnected, inputAnalyser, outputAnalyser,
                 canvasCtx, animationFrameId, frames, nFrame, vizDetached>>
  /\ UNCHANGED liveVars

\* connectedCallback(), lines 38-48; the first one also lets Lit run the
\* element's first update
ConnectedCallback ==
  /\ ~isConnected
  /\ isConnected' = TRUE
  /\ hasConnected' = TRUE
  /\ updatePending' = (updatePending \/ ~hasConnected)
  /\ inputAnalyser' = (inputAnalyser \/ inputNode)
  /\ outputAnalyser' = (outputAnalyser \/ outputNode)
  /\ SetViz(startVisualization(Viz))
  /\ vizDetached' = FALSE
  /\ UNCHANGED <<inputNode, outputNode, changedProperties>>
  /\ UNCHANGED liveVars

\* disconnectedCallback(), lines 50-56
DisconnectedCallback ==
  /\ isConnected
  /\ isConnected' = FALSE
  /\ SetViz(IF animationFrameId # 0 THEN Cancel(Viz, animationFrameId) ELSE Viz)
  /\ vizDetached' = FALSE
  /\ UNCHANGED <<hasConnected, inputNode, outputNode, inputAnalyser,
                 outputAnalyser, changedProperties, updatePending>>
  /\ UNCHANGED liveVars

\* updated(changedProperties), lines 58-67
updated(v, changed) ==
  LET v1 == IF "inputNode" \in changed /\ inputNode
              THEN startVisualization(v) ELSE v
  IN IF "outputNode" \in changed /\ outputNode
       THEN startVisualization(v1) ELSE v1

\* a Lit update, attached or not, once the element has been attached:
\* render, firstUpdated() the first time (lines 193-198), then updated()
Update ==
  /\ hasConnected /\ updatePending
  /\ updatePending' = FALSE
  /\ changedProperties' = {}
  /\ inputAnalyser' = (inputAnalyser \/ ("inputNode" \in changedProperties /\ inputNode))
  /\ outputAnalyser' = (outputAnalyser \/ ("outputNode" \in changedProperties /\ outputNode))
  /\ SetViz(updated([Viz EXCEPT !.canvasCtx = TRUE], changedProperties))
  /\ UNCHANGED <<isConnected, hasConnected, inputNode, outputNode, vizDetached>>
  /\ UNCHANGED liveVars

\* the browser runs the animation-frame callback requested first among those
\* queued: the retry of line 105 or visualize
AnimationFrame ==
  /\ frames # {}
  /\ LET f == CHOOSE g \in frames : \A h \in frames : g.id <= h.id
         v == Cancel(Viz, f.id)
     IN /\ SetViz(IF f.kind = "retry" THEN startVisualization(v)
                                      ELSE visualize(v))
        /\ vizDetached' = (vizDetached \/ (f.kind = "visualize" /\ ~isConnected))
  /\ UNCHANGED <<isConnected, hasConnected, inputNode, outputNode,
                 inputAnalyser, outputAnalyser, changedProperties,
                 updatePending>>
  /\ UNCHANGED liveVars

\* ------------------------------------------------------------ specification
VizNext ==
  \/ \E p \in {"inputNode", "outputNode"} : SetNode(p)
  \/ ConnectedCallback
  \/ DisconnectedCallback
  \/ Update
  \/ AnimationFrame

\* The visualizer alone.
VizSpec == Init /\ [][VizNext]_vars

Next ==
  \/ VizNext
  \/ \E intr \in BOOLEAN : OnMessageAudio(intr)
  \/ OnMessageInterrupted
  \/ \E m \in Msgs, d \in Durations : DecodeDone(m, d)
  \/ \E m \in Msgs : DecodeFail(m)
  \/ \E u \in Msgs : Ended(u)
  \/ Tick
  \/ StartRecording
  \/ \E i \in Acqs : AcquireOk(i)
  \/ \E i \in Acqs, stage \in FailStages : AcquireFail(i, stage)
  \/ StopRecording
  \/ \E n \in Acqs, throws \in BOOLEAN : AudioProcess(n, throws)
  \/ \E ok \in BOOLEAN : FetchDone(ok)
  \/ \E c \in Chans : ConnectOk(c)
  \/ \E c \in Chans : ConnectFail(c)
  \/ \E c \in Chans : OnError(c)
  \/ \E c \in Chans : OnClose(c)
  \/ Reset
  \/ \E r \in Resets : ResetClosed(r)

Spec == Init /\ [][Next]_vars

\* The element with nobody at the microphone: the reply side only.
PlayNext ==
  \/ \E intr \in BOOLEAN : OnMessageAudio(intr)
  \/ OnMessageInterrupted
  \/ \E m \in Msgs, d \in Durations : DecodeDone(m, d)
  \/ \E m \in Msgs : DecodeFail(m)
  \/ \E u \in Msgs : Ended(u)
  \/ Tick
  \/ \E ok \in BOOLEAN : FetchDone(ok)
  \/ \E c \in Chans : ConnectOk(c)
  \/ \E c \in Chans : ConnectFail(c)

PlaySpec == Init /\ [][PlayNext]_vars

\* The state once initClient() has fetched the instructions and its channel
\* has opened: what FetchDone(TRUE) and ConnectOk(1) lead to from Init.
Opened ==
  /\ VizInit
  /\ clock = 0
  /\ nextStartTime = 0
  /\ sources = {}
  /\ unit = [m \in Msgs |-> NoUnit]
  /\ hnd = [m \in Msgs |-> NoHnd]
  /\ nMsg = 0
  /\ isRecording = FALSE
  /\ status = "Session Opened"
  /\ error = ""
  /\ session = 1
  /\ chan = [c \in Chans |-> IF c = 1 THEN [st |-> "open", by |-> 0] ELSE NoChan]
  /\ nChan = 1
  /\ initPc = "started"
  /\ rst = [r \in Resets |-> NoRst]
  /\ nRst = 0
  /\ acqPending = {}
  /\ nAcq = 0
  /\ mediaStream = 0
  /\ sourceNode = 0
  /\ scriptProcessorNode = 0
  /\ liveStreams = {}
  /\ liveProcs = {}
  /\ hist = [op |-> "", arg |-> 0, prev |-> 0, bumped |-> FALSE,
             flushed |-> FALSE, lastIntr |-> 0, everFlushed |-> FALSE]

\* The reply side with reset(), from the opened session on, for runs of at
\* most MaxFlushMsgs messages.
FlushNext ==
  \/ (nMsg < MaxFlushMsgs /\ \E intr \in BOOLEAN : OnMessageAudio(intr))
  \/ (nMsg < MaxFlushMsgs /\ OnMessageInterrupted)
  \/ \E m \in Msgs, d \in Durations : DecodeDone(m, d)
  \/ \E m \in Msgs : DecodeFail(m)
  \/ \E u \in Msgs : Ended(u)
  \/ Tick
  \/ \E c \in Chans : ConnectOk(c)
  \/ \E c \in Chans : ConnectFail(c)
  \/ Reset
  \/ \E r \in Resets : ResetClosed(r)

FlushSpec == Opened /\ [][FlushNext]_vars

\* The element while the remote side sends no reply: capture and session.
TalkNext ==
  \/ StartRecording
  \/ \E i \in Acqs : AcquireOk(i)
  \/ \E i \in Acqs, stage \in FailStages : AcquireFail(i, stage)
  \/ StopRecording
  \/ \E n \in Acqs, throws \in BOOLEAN : AudioProcess(n, throws)
  \/ \E ok \in BOOLEAN : FetchDone(ok)
  \/ \E c \in Chans : ConnectOk(c)
  \/ \E c \in Chans : ConnectFail(c)
  \/ \E c \in Chans : OnError(c)
  \/ \E c \in Chans : OnClose(c)
  \/ Reset
  \/ \E r \in Resets : ResetClosed(r)

TalkSpec == Init /\ [][TalkNext]_vars

\* ------------------------------------------------------------------ claims
Started(m) == unit[m].st # "none"

\* unit m was started while the cursor had only been advanced by the unit
\* started before it: no interruption and no reset since that unit
Follows(m) == Started(m) /\ unit[m].pred # 0 /\ ~unit[m].flushed

\* C1 as claimed: of chunks handled one after the other with no interruption
\* or reset in between, each starts exactly where the one before it ends.
C1_GaplessAlways ==
  \A m \in Msgs :
    (Follows(m) /\ unit[m].pred < m)
      => unit[m].start = unit[unit[m].pred].start + unit[unit[m].pred].dur

\* C1 amended: a chunk starts exactly where the chunk started before it ends,
\* with no interruption or reset in between, provided no handler has found the
\* output clock ahead of the cursor since that chunk was started.
C1_Gapless ==
  \A m \in Msgs :
    (Follows(m) /\ ~unit[m].bumped)
      => unit[m].start = unit[unit[m].pred].start + unit[unit[m].pred].dur

\* a chunk started exactly at the end of the one before it, both after the
\* clock had advanced, with no interruption before
C1_Witness ==
  /\ ~hist.everFlushed
  /\ \E m \in Msgs :
       /\ Follows(m) /\ ~unit[m].bumped /\ unit[m].pred < m
       /\ unit[unit[m].pred].start > 0
       /\ unit[m].start = unit[unit[m].pred].start + unit[unit[m].pred].dur

\* C2 as claimed: with no interruption, the unit of an earlier audio message
\* starts at an earlier cursor position than the unit of a later one, whatever
\* the order in which their decodes complete.
C2_CallOrder ==
  ~hist.everFlushed =>
    \A m1, m2 \in Msgs :
      (m1 < m2 /\ Started(m1) /\ Started(m2)) => unit[m1].start < unit[m2].start

\* C3: the step in which the handler of a message carrying interrupted runs
\* its flush ends with the active set empty and the cursor at 0.
C3_InterruptFlush ==
  [][\A m \in Msgs :
       (hnd'[m].intr /\ hnd[m].pc # "done" /\ hnd'[m].pc = "done")
         => (sources' = {} /\ nextStartTime' = 0)]_vars

\* a flush has just stopped two units that were playing
C3_Witness ==
  /\ \E m \in Msgs : hnd[m].intr /\ hnd[m].pc = "done"
  /\ sources = {} /\ nextStartTime = 0
  /\ Cardinality({u \in Msgs : unit[u].st = "stopped" /\ unit[u].byStop = 1}) >= 2

\* C4 as claimed: no unit is started after an interruption that was signalled
\* after the unit's own message was delivered.
C4_NoStartAfterBargeIn ==
  \A m \in Msgs : Started(m) => ~unit[m].late

\* C5 as claimed: a unit is never started at a time before the output clock.
C5_NeverInThePast ==
  \A m \in Msgs : Started(m) => unit[m].start >= unit[m].at

\* a started unit is in the active set until it is removed, and is removed
\* once: by its 'ended' listener or by a forced stop
RemovedOnce(u) ==
  /\ unit[u].byHook + unit[u].byStop <= 1
  /\ (u \in sources) <=> (unit[u].byHook + unit[u].byStop = 0)
  /\ unit[u].st = "done" => u \notin sources

C7_ResetEndsClean ==
  (hist.op = "resetDone" /\ rst[hist.arg].acq = nAcq) =>
    /\ ~isRecording
    /\ sources = {} /\ nextStartTime = 0
    /\ rst[hist.arg].old # 0 =>
         /\ chan[rst[hist.arg].old].st \in {"shut", "closed"}
         /\ session # rst[hist.arg].old

\* C8 as claimed: when startRecording() sets isRecording, the channel held is
\* open: neither closed nor errored.
C8_RecordingOnlyWhenOpen ==
  hist.op = "recording" => (session # 0 /\ chan[session].st = "open")

\* C9 as claimed: after onerror the error is shown, recording is stopped and
\* the capture handles are released.
C9_ErrorStopsRecording ==
  hist.op = "onerror" =>
    /\ error # ""
    /\ ~isRecording
    /\ mediaStream = 0 /\ sourceNode = 0 /\ scriptProcessorNode = 0

\* C10 as claimed: after onclose the element is not recording.
C10_CloseEndsRecording ==
  hist.op = "onclose" => ~isRecording

\* the capture handles are all cleared
Released == mediaStream = 0 /\ sourceNode = 0 /\ scriptProcessorNode = 0

\* C11: when startRecording() has failed in getUserMedia or in a later wiring
\* step, isRecording is false, the three capture handles are cleared and the
\* stream this invocation acquired, if any, is stopped.
C11_FailureCleansUp ==
  hist.op \in {"startFailed", "wiringFailed"} =>
    /\ ~isRecording
    /\ Released
    /\ hist.arg \notin liveStreams
    /\ hist.arg \notin liveProcs

\* a wiring step failed after the stream had been acquired
C11_Witness ==
  /\ hist.op = "wiringFailed"
  /\ ~isRecording /\ Released /\ liveStreams = {}

\* C12 as claimed: when startRecording() has failed, the error is shown.
C12_FailureShown ==
  hist.op \in {"startFailed", "wiringFailed"} => error # ""

\* what the element shows and holds of the capture pipeline
captureState == <<isRecording, status, error, mediaStream, sourceNode,
                  scriptProcessorNode, liveStreams, liveProcs>>

\* C13: stopRecording() leaves recording off and every handle cleared, so
\* that a second call finds nothing to release, and a call that follows
\* another call changes nothing of what the element shows and holds.
C13_StopIdempotent ==
  [][/\ hist'.op = "stopRecording" => (~isRecording' /\ Released')
     /\ (hist.op = "stopRecording" /\ hist'.op = "stopRecording")
          => UNCHANGED captureState]_vars

\* stopRecording() called twice in a row after a recording
C13_Witness ==
  /\ hist.op = "stopRecording" /\ hist.arg = 1
  /\ nAcq > 0 /\ liveStreams = {} /\ liveProcs = {}
  /\ status = "Recording stopped"

C15_NoCaptureLeak ==
  /\ (~isRecording /\ acqPending = {}) => (liveStreams = {} /\ liveProcs = {})
  /\ isRecording => Cardinality(liveProcs) <= 1

\* C16: a step in which sendRealtimeInput throws records the error and leaves
\* isRecording true and every capture handle as it was, with the framing
\* node that raised it still connected, so that later frames are offered.
C16_SendFailureKeepsCapture ==
  [][hist'.op = "frame" /\ hist'.arg = 2 =>
       /\ error' # ""
       /\ isRecording /\ isRecording'
       /\ UNCHANGED <<mediaStream, sourceNode, scriptProcessorNode,
                      liveStreams, liveProcs, status>>
       /\ scriptProcessorNode' \in liveProcs']_vars

\* sendRealtimeInput has thrown on a channel that reported an error
C16_Witness ==
  /\ hist.op = "frame" /\ hist.arg = 2
  /\ error = "Error sending audio"
  /\ isRecording /\ scriptProcessorNode \in liveProcs /\ mediaStream # 0

\* C17: a step in which the decode of a message fails leaves the channel
\* and the session as they were and adds no playback unit, and the decode of
\* any other message, earlier or later, still starts its unit at the cursor
\* and advances the cursor by its duration.
C17_DecodeFailureIsLocal ==
  [][\A m \in Msgs :
       /\ (hnd[m].pc = "decode" /\ hnd'[m].pc = "threw") =>
            /\ UNCHANGED <<chan, session, sources, unit, nextStartTime>>
            /\ unit'[m].st = "none" /\ m \notin sources'
       /\ (hnd[m].pc = "decode" /\ hnd'[m].pc = "done") =>
            /\ unit'[m].st \in {"active", "stopped"}
            /\ unit'[m].start = nextStartTime
            /\ ~hnd[m].intr =>
                 /\ m \in sources' /\ unit'[m].st = "active"
                 /\ nextStartTime' = nextStartTime + unit'[m].dur]_vars

\* a message that arrived after a failed decode has its unit scheduled on the
\* open channel
C17_Witness ==
  \E m \in Msgs :
    /\ hnd[m].afterFail /\ hnd[m].pc = "done"
    /\ m \in sources /\ unit[m].st = "active"
    /\ \E j \in Msgs : hnd[j].pc = "threw" /\ unit[j].st = "none"
    /\ session # 0 /\ chan[session].st = "open"

\* C18 as claimed: the step in which the handler of a message that carries
\* the interruption signal ends leaves the scheduler flushed, whatever else
\* the message carries.
C18_EveryInterruptionFlushes ==
  [][\A m \in Msgs :
       (/\ hnd'[m].intr
        /\ hnd[m].pc \in {"new", "decode"}
        /\ hnd'[m].pc \in {"done", "threw"})
         => (sources' = {} /\ nextStartTime' = 0)]_vars

\* C19 as claimed: every channel that was successfully connected and has
\* not been closed is the one held in session, so at most one is live.
C19_OneLiveChannel ==
  \A c \in Chans : chan[c].st \in {"open", "errored"} => session = c

\* C20 as claimed: when reset() has completed showing 'Session reset' and no
\* error, a session is held; and when the connect of reset() failed, the
\* error is still shown at its completion.
C20_ResetReadoutTruthful ==
  hist.op = "resetDone" =>
    /\ (status = "Session reset" /\ error = "") => session # 0
    /\ (\E c \in Chans : chan[c].by = hist.arg /\ chan[c].st = "failed")
         => error # ""

\* the visualize callbacks queued for an animation frame
PendingVisualize == {f \in frames : f.kind = "visualize"}

\* at most one visualize frame callback is pending
OneLoop == Cardinality(PendingVisualize) <= 1

\* C21 as claimed: at most one visualize frame callback is pending at any
\* time, and while the element is detached no visualize frame callback is
\* pending and none has run since disconnectedCallback.
C21_OneLoopStoppedOnDisconnect ==
  /\ Cardinality(PendingVisualize) <= 1
  /\ ~isConnected => (PendingVisualize = {} /\ ~vizDetached)

====
